---------------------------- MODULE Spec2Model ----------------------------
(***************************************************************************)
(* A model of the bot manager: the registry of bots (models.py), the       *)
(* provisioning worker and the lifecycle request handlers (app.py), the    *)
(* process supervisor (process_manager.py) and the log error scanner       *)
(* (alerts.py).                                                             *)
(*                                                                         *)
(* Threads.  create_bot starts one provisioning worker per bot             *)
(* (threading.Thread, app.py:172); request handlers run on the web         *)
(* server's threads; every thread owns its own SQLAlchemy session          *)
(* (scoped_session, models.py:19).  A handler is therefore modelled as a   *)
(* sequence of steps - load the row, external calls, commit - that         *)
(* interleave with the steps of the other threads.                         *)
(*                                                                         *)
(* Sessions.  db.get() copies the row into the thread's object; commit     *)
(* writes back only the attributes whose value differs from the loaded one *)
(* (the unit of work emits UPDATE for net changes only), so concurrent     *)
(* commits are last-writer-wins per column.  The worker's session is the   *)
(* one _update_progress opens and closes (same thread, same scoped         *)
(* session), so every _update_progress detaches the worker's bot object.   *)
(*                                                                         *)
(* Environment.  An external call of the worker (clone, file write, venv,  *)
(* pip, spawn, a commit that has something to write) either returns or     *)
(* raises.  A process may exit by itself at any time.                      *)
(***************************************************************************)
EXTENDS Integers, Sequences, FiniteSets, TLC

VARIABLES
    db,        \* the bots table: bot id -> row
    fs,        \* per bot, what exists in its work directory
    procs,     \* the OS process table: pid -> [owner, alive]
    nextPid,   \* the next pid the OS hands out
    now,       \* the wall clock read by datetime.utcnow()
    run,       \* per bot, the provisioning worker thread
    web,       \* the request-handler threads
    logFile,   \* the bot's log file: whether it exists, and its bytes
    logOffsets,\* alerts._log_offsets: log path -> offset
    lastScan,  \* what the last scan_log_for_errors call read and returned
    scanned,   \* the bytes all scans so far have read, in the order read
    alerts,    \* number of send_telegram_alert calls
    stats,     \* the bot_stats table: bot id -> row
    messages,  \* the bot_messages table: the rows, in insertion order
    api,       \* the threads serving the telemetry endpoints
    signals,   \* per pid, the signal sent to the process and not yet acted on
    sup,       \* a call of stop_bot_process: its position and its pid
    remote,    \* the revision at the head of the upstream repository
    wd,        \* per bot, its work directory and the checkout in it
    lastOpen,  \* what the last clone_or_open_repo call did and returned
    upd,       \* the thread serving an update_repo request
    job,       \* the scheduler thread running daily_update_job or log_scan_job
    env,       \* the declared variables of a bot and the .env file of step 2
    py,        \* a resolution of the interpreter and what its caller does
    dep,       \* step 5: the wait for the manifest and the install
    reg,       \* per bot, the name it was registered with
    dirs       \* per work directory path, what lies there and whose it is

lifeVars == <<db, fs, procs, nextPid, run, web>>
scanVars == <<logFile, logOffsets, lastScan, scanned, alerts>>
apiVars == <<stats, messages, api>>
supVars == <<signals, sup>>
repoVars == <<remote, wd, lastOpen>>
updVars == <<upd>>
jobVars == <<job>>
stepVars == <<env, py, dep>>
shareVars == <<reg, dirs>>
vars == <<db, fs, procs, nextPid, now, run, web,
          logFile, logOffsets, lastScan, scanned, alerts,
          stats, messages, api, signals, sup, remote, wd, lastOpen, upd,
          job, env, py, dep, reg, dirs>>

\* What the actions of one part of the program leave alone.
notLife == <<stepVars, shareVars, scanVars, apiVars, supVars, repoVars, updVars, jobVars>>
notScan == <<stepVars, shareVars, lifeVars, now, apiVars, supVars, repoVars, updVars, jobVars>>
notApi == <<stepVars, shareVars, lifeVars, scanVars, supVars, repoVars, updVars, jobVars>>
notSup == <<stepVars, shareVars, db, fs, run, web, now, scanVars, apiVars, repoVars, updVars,
            jobVars>>
notRepo == <<stepVars, shareVars, lifeVars, now, scanVars, apiVars, supVars, updVars, jobVars>>
notUpd == <<stepVars, shareVars, fs, run, web, scanVars, apiVars, supVars, lastOpen, jobVars>>
notJob == <<stepVars, shareVars, fs, run, web, now, scanVars, apiVars, supVars, remote, lastOpen,
            updVars>>

-----------------------------------------------------------------------------
(* Bounds *)

\* pids the OS hands out before the model stops spawning
MaxPid == 3
\* readings of the wall clock
MaxTime == 2
\* bytes the log file grows to
MaxLogLen == 12
\* the value a statistics counter grows to
MaxCount == 3
\* rows the bot_messages table grows to
MaxMessages == 2
\* revisions the upstream repository grows to
MaxRev == 3
\* calls of clone_or_open_repo in a behaviour
MaxCalls == 3
\* lines of the variables a user declares for a bot
MaxEnvLines == 2

\* The bots of the lifecycle model, and the request-handler threads: one
\* request is in flight at a time, beside the provisioning worker.
Bots == {1}

\* The rows the tables can hold: the scheduler jobs go over every bot.
Fleet == {1, 2}
WebThreads == {"w1"}

\* setup_total: the number of provisioning steps (app.py:164, app.py:178)
SetupTotal == 10

Pids == 1..MaxPid
NoPid == 0
NoTime == 0

-----------------------------------------------------------------------------
(* The registry: models.Bot *)

\* bot.venv_path as create_bot stores it (app.py:161), and the None the
\* daily job passes in its place (scheduler.py:41).
BotVenv == "<workdir>/.venv"
NoVenv == "<None>"

\* The columns of a bots row the lifecycle reads or writes
\* (models.py:32-59).  exists = FALSE stands for "no such row".
NoRow ==
    [exists |-> FALSE, enabled |-> FALSE, status |-> "stopped",
     process_pid |-> NoPid, last_commit |-> 0, venv_path |-> NoVenv,
     last_started_at |-> NoTime, last_stopped_at |-> NoTime,
     setup_status |-> "pending", setup_step |-> 0, setup_total |-> 0,
     setup_message |-> <<>>]

\* The row create_bot inserts (app.py:148-166).
NewBotRow(enabled) ==
    [exists |-> TRUE, enabled |-> enabled, status |-> "setting_up",
     process_pid |-> NoPid, last_commit |-> 0, venv_path |-> BotVenv,
     last_started_at |-> NoTime, last_stopped_at |-> NoTime,
     setup_status |-> "running", setup_step |-> 0, setup_total |-> SetupTotal,
     setup_message |-> <<"Init">>]

\* Session.commit(): the UPDATE carries the attributes of the object whose
\* value differs from the one loaded; the other columns keep whatever the
\* table holds now.
Flush(row, loaded, cur) ==
    [f \in DOMAIN row |-> IF cur[f] # loaded[f] THEN cur[f] ELSE row[f]]

-----------------------------------------------------------------------------
(* The process supervisor: process_manager.py *)

NoProc == [owner |-> 0, alive |-> FALSE, venv_path |-> NoVenv]

\* is_process_running (process_manager.py:125-132)
is_process_running(pid) ==
    /\ pid # NoPid
    /\ procs[pid].alive

\* start_bot_process (process_manager.py:80-105): Popen returns a fresh pid.
start_bot_process(b, venv_path) ==
    [procs EXCEPT ![nextPid] = [owner |-> b, alive |-> TRUE,
                                venv_path |-> venv_path]]

\* stop_bot_process (process_manager.py:108-122) as the lifecycle handlers
\* see it when the process goes away on the signal; StopLocate to StopKill
\* follow the function statement by statement.
stop_bot_process(pid) ==
    IF pid \in Pids THEN [procs EXCEPT ![pid].alive = FALSE] ELSE procs

\* What a caller of stop_bot_process(pid) can get for a process that was
\* alive when the caller tested it (process_manager.py:108-122): the
\* process ends on the signal; or it outlives terminate and kill, which
\* is not waited for; or it has exited by itself and children() or
\* terminate() raises NoSuchProcess.
StopOutcomes(pid) ==
    { [procs |-> [procs EXCEPT ![pid].alive = FALSE], raised |-> FALSE],
      [procs |-> procs, raised |-> FALSE],
      [procs |-> [procs EXCEPT ![pid].alive = FALSE], raised |-> TRUE] }

\* The live processes spawned for bot b.
LiveOf(b) == {p \in Pids : procs[p].owner = b /\ procs[p].alive}


-----------------------------------------------------------------------------
(* The repository synchronizer: repo_manager.py *)

\* POSSIBLE_BRANCHES (repo_manager.py:7)
POSSIBLE_BRANCHES == <<"master", "main">>

\* The candidate None: clone without a branch, the repository's default.
DefaultBranch == "<default>"

\* The branches a bot may ask for.
Branches == {"master", "main", "dev"}

\* No revision: the work directory holds no checkout.
NoRev == 0

\* A work directory: whether it exists, what its .git is (none, a valid
\* repository, or a directory that does not open as one), whether it holds
\* anything besides the checkout, and the checkout's branch and head.
NoDir == [dir |-> FALSE, git |-> "none", files |-> FALSE,
          branch |-> "none", head |-> NoRev]

\* A checkout test that never finds a checkout.
NeverValidCheckout(w) == FALSE

\* os.path.isdir(workdir/.git) and Repo(workdir) opens (repo_manager.py:11-16)
IsValidCheckout(w) == w.dir /\ w.git = "valid"

\* candidates (repo_manager.py:29)
Candidates(branch) ==
    <<branch>> \o SelectSeq(POSSIBLE_BRANCHES, LAMBDA b : b # branch)
               \o <<DefaultBranch>>

\* The loop over the candidates (repo_manager.py:28-41): ok is the set of
\* candidates whose clone succeeds.  The result names the candidate that was
\* cloned, how many were tried, and, if all failed, the candidate whose
\* error is raised: last_error is overwritten by every failure.
RECURSIVE CloneLoop(_, _, _, _)
CloneLoop(candidates, i, ok, last_error) ==
    IF i > Len(candidates)
    THEN [cloned |-> "none", tried |-> i - 1, error |-> last_error]
    ELSE IF candidates[i] \in ok
         THEN [cloned |-> candidates[i], tried |-> i, error |-> "none"]
         ELSE CloneLoop(candidates, i + 1, ok, candidates[i])

\* The recursive delete of the directory's contents, by os.walk
\* (repo_manager.py:18-26); an error stops it and is swallowed, and what was
\* not yet deleted stays.
DeleteContents(w, complete) ==
    IF ~w.dir THEN w
    ELSE IF complete
         THEN [w EXCEPT !.git = "none", !.files = FALSE,
                        !.branch = "none", !.head = NoRev]
         ELSE w

\* Whether git can clone into the directory: it must be empty.
IsEmptyDir(w) == w.git = "none" /\ ~w.files

\* clone_or_open_repo (repo_manager.py:10-42) on work directory w, with the
\* upstream at revision rev.  It returns the directory as it leaves it and
\* what it did.
clone_or_open_repo(w, branch, ok, complete, rev) ==
    IF IsValidCheckout(w)
    THEN [wd |-> w, deleted |-> FALSE, tried |-> 0, cloned |-> "none",
          error |-> "none", head |-> w.head]
    ELSE LET emptied == [DeleteContents(w, complete) EXCEPT !.dir = TRUE]
             loop == CloneLoop(Candidates(branch), 1,
                               IF IsEmptyDir(emptied) THEN ok ELSE {}, "none")
         IN IF loop.cloned # "none"
            THEN [wd |-> [emptied EXCEPT !.git = "valid",
                                         !.branch = loop.cloned,
                                         !.head = rev],
                  deleted |-> w.dir /\ emptied # w, tried |-> loop.tried,
                  cloned |-> loop.cloned, error |-> "none", head |-> rev]
            ELSE [wd |-> emptied,
                  deleted |-> w.dir /\ emptied # [w EXCEPT !.dir = TRUE],
                  tried |-> loop.tried, cloned |-> "none",
                  error |-> loop.error, head |-> NoRev]

NoOpen == [calls |-> 0, branch |-> "none", ok |-> {}, wasValid |-> FALSE,
           deleted |-> FALSE, tried |-> 0, cloned |-> "none",
           error |-> "none", head |-> NoRev]

\* A call of clone_or_open_repo for the bot's work directory.
OpenOrClone(b) ==
    /\ lastOpen.calls < MaxCalls
    /\ \E branch \in Branches, complete \in BOOLEAN,
          ok \in SUBSET (Branches \cup {DefaultBranch}) :
         LET r == clone_or_open_repo(wd[b], branch, ok, complete, remote)
         IN /\ wd' = [wd EXCEPT ![b] = r.wd]
            /\ lastOpen' = [calls |-> lastOpen.calls + 1, branch |-> branch,
                            ok |-> ok, wasValid |-> IsValidCheckout(wd[b]),
                            deleted |-> r.deleted, tried |-> r.tried,
                            cloned |-> r.cloned, error |-> r.error,
                            head |-> r.head]
    /\ UNCHANGED <<remote, notRepo>>

\* Files appear in the work directory beside the checkout: .env, the venv,
\* the logs (app.py:218-239, process_manager.py:84).
WriteFiles(b) ==
    /\ wd[b].dir
    /\ ~wd[b].files
    /\ wd' = [wd EXCEPT ![b].files = TRUE]
    /\ UNCHANGED <<remote, lastOpen, notRepo>>

\* The checkout is damaged: .git is there but no longer opens as a
\* repository.
CorruptCheckout(b) ==
    /\ wd[b].git = "valid"
    /\ wd' = [wd EXCEPT ![b].git = "corrupt"]
    /\ UNCHANGED <<remote, lastOpen, notRepo>>

\* Somebody pushes a commit upstream.
RemotePush ==
    /\ remote < MaxRev
    /\ remote' = remote + 1
    /\ UNCHANGED <<wd, lastOpen, notRepo>>

-----------------------------------------------------------------------------
(* The provisioning worker: app.py _update_progress, _run_bot_setup *)

\* The steps list with the index of its eighth entry mistyped as 9.
StepsMistyped ==
    << [idx |-> 1,  msg |-> "Clone repository"],
       [idx |-> 2,  msg |-> "Write .env"],
       [idx |-> 3,  msg |-> "Create venv"],
       [idx |-> 4,  msg |-> "Upgrade pip"],
       [idx |-> 5,  msg |-> "Install dependencies"],
       [idx |-> 6,  msg |-> "Find entrypoint"],
       [idx |-> 7,  msg |-> "Save state"],
       [idx |-> 9,  msg |-> "Finalize"],
       [idx |-> 9,  msg |-> "Ready"],
       [idx |-> 10, msg |-> "Finished"] >>

\* The steps list of _run_bot_setup (app.py:193-204).
Steps ==
    << [idx |-> 1,  msg |-> "Clone repository"],
       [idx |-> 2,  msg |-> "Write .env"],
       [idx |-> 3,  msg |-> "Create venv"],
       [idx |-> 4,  msg |-> "Upgrade pip"],
       [idx |-> 5,  msg |-> "Install dependencies"],
       [idx |-> 6,  msg |-> "Find entrypoint"],
       [idx |-> 7,  msg |-> "Save state"],
       [idx |-> 8,  msg |-> "Finalize"],
       [idx |-> 9,  msg |-> "Ready"],
       [idx |-> 10, msg |-> "Finished"] >>

\* The text of the exception raised by an external call: str(e).
ExcText ==
    [clone |-> "git clone failed", envfile |-> "cannot write .env",
     venv |-> "cannot create venv", pip |-> "pip upgrade failed",
     deps |-> "pip install failed", commit |-> "database is locked"]

\* f"Ошибка: {e}" (app.py:287)
ErrorMessage(exc) == <<"Error: ", ExcText[exc]>>

\* A progress message is held as a sequence of text pieces.
Msg(text) == <<text>>

\* The attribute writes of _update_progress (app.py:184-187).
ProgressWrite(row, step, message, status) ==
    [row EXCEPT !.setup_step = step, !.setup_total = SetupTotal,
                !.setup_message = message, !.setup_status = status]

\* A worker that goes from one progress report straight to the action of
\* the step after it.
AfterProgressSkipping(k) ==
    IF k = 10 THEN [pc |-> "load10", k |-> 10]
    ELSE IF k \in {8, 9} THEN [pc |-> "progress", k |-> k + 1]
    ELSE [pc |-> "action", k |-> k + 1]

\* The step whose action follows _update_progress(k), or the next
\* _update_progress when nothing stands between the two calls
\* (app.py:267-269), or the auto-start after the last one.
AfterProgress(k) ==
    IF k = 10 THEN [pc |-> "load10", k |-> 10]
    ELSE IF k \in {8, 9} THEN [pc |-> "progress", k |-> k + 1]
    ELSE [pc |-> "action", k |-> k]

\* The external call of step k that may raise, by the name of its exception;
\* steps 6 and 7 call nothing that raises (find_entrypoint; a commit with
\* nothing to write).
StepCall(k) ==
    CASE k = 1 -> "clone"
      [] k = 2 -> "envfile"
      [] k = 3 -> "venv"
      [] k = 4 -> "pip"
      [] k = 5 -> "deps"
      [] OTHER -> "none"

\* What step k leaves in the work directory when its call returns.
StepEffect(f, k) ==
    CASE k = 1 -> [f EXCEPT !.checkout = TRUE]
      [] k = 2 -> [f EXCEPT !.envfile = TRUE]
      [] k = 3 -> [f EXCEPT !.venv = TRUE]
      [] k = 4 -> [f EXCEPT !.pip = TRUE]
      [] k = 5 -> [f EXCEPT !.deps = TRUE]
      [] OTHER -> f

\* The steps that begin with bot = get_bot(db) (app.py:219, 236, 263): the
\* session was closed by the _update_progress before, so the row is read
\* again and the new object is attached.
StepReloads(k) == k \in {2, 3, 7}

NoRun ==
    [pc |-> "idle", k |-> 0, attached |-> FALSE, loaded |-> NoRow,
     cur |-> NoRow, exc |-> "none", raisedAt |-> 0, spawned |-> NoPid,
     spawnFailed |-> FALSE]

NoFs == [checkout |-> FALSE, envfile |-> FALSE, venv |-> FALSE,
         pip |-> FALSE, deps |-> FALSE]

\* create_bot (app.py:127-176): make the work directory with its logs
\* directory, insert the row, start the worker thread.
CreateBot(b) ==
    /\ ~db[b].exists
    /\ \E enabled \in BOOLEAN :
         db' = [db EXCEPT ![b] = NewBotRow(enabled)]
    /\ run' = [run EXCEPT ![b] = [NoRun EXCEPT !.pc = "begin"]]
    /\ wd' = [wd EXCEPT ![b].dir = TRUE, ![b].files = TRUE]
    /\ UNCHANGED <<fs, procs, nextPid, now, web, scanVars, apiVars, supVars,
                   remote, lastOpen, updVars, jobVars, stepVars, shareVars>>

\* bot = get_bot(db) at the top of the worker (app.py:207-211).
WorkerBegin(b) ==
    /\ run[b].pc = "begin"
    /\ run' = [run EXCEPT ![b].pc = "progress", ![b].k = 1,
                          ![b].attached = TRUE,
                          ![b].loaded = db[b], ![b].cur = db[b]]
    /\ UNCHANGED <<db, fs, procs, nextPid, now, web, notLife>>

\* The worker enters its except clause (app.py:286) with exception exc,
\* raised while step k was current.  The session is closed or rolled back.
Raise(r, exc) ==
    [r EXCEPT !.pc = "h_progress", !.exc = exc, !.raisedAt = r.k,
              !.attached = FALSE, !.loaded = NoRow, !.cur = NoRow]

\* _update_progress(bot_id, k, message) of step k (app.py:178-190, called at
\* 213, 218, 235, 241, 247, 259, 262, 267-269): one commit of
\* (step, total, message, status), then the session is closed.
WorkerProgress(b) ==
    /\ run[b].pc = "progress"
    /\ LET k == run[b].k
           st == IF k = 10 THEN "done" ELSE "running"
       IN \E ok \in BOOLEAN :
            IF ok
            THEN /\ db' = [db EXCEPT ![b] =
                      ProgressWrite(db[b], Steps[k].idx, Msg(Steps[k].msg), st)]
                 /\ run' = [run EXCEPT ![b].pc = AfterProgress(k).pc,
                                       ![b].k = AfterProgress(k).k,
                                       ![b].attached = FALSE,
                                       ![b].loaded = NoRow,
                                       ![b].cur = NoRow]
            ELSE /\ run' = [run EXCEPT ![b] = Raise(run[b], "commit")]
                 /\ db' = db
    /\ UNCHANGED <<fs, procs, nextPid, now, web, notLife>>

\* What the commit after step k's action writes (app.py:215-216, 264-265):
\* the pending changes of the bot object if it is still in the session.
\* Step 1 sets last_commit to the head of the checkout on the object
\* loaded before _update_progress(1) closed the session.
StepCommit(row, r, k, head) ==
    IF k = 1 /\ r.attached
    THEN Flush(row, r.loaded, [r.cur EXCEPT !.last_commit = head])
    ELSE row

\* The checkout step 1 leaves when clone_or_open_repo returns
\* (app.py:214).
StepCheckout(w, k, rev) ==
    IF k = 1
    THEN clone_or_open_repo(w, "master", Branches \cup {DefaultBranch},
                            TRUE, rev).wd
    ELSE w

\* The action of step k, k = 1..7 (app.py:214-265).
WorkerAction(b) ==
    /\ run[b].pc = "action"
    /\ LET k == run[b].k
           r == IF StepReloads(k)
                THEN [run[b] EXCEPT !.attached = TRUE,
                                    !.loaded = db[b], !.cur = db[b]]
                ELSE run[b]
       IN \E ok \in IF StepCall(k) = "none" THEN {TRUE} ELSE BOOLEAN :
            IF ok
            THEN /\ fs' = [fs EXCEPT ![b] = StepEffect(fs[b], k)]
                 /\ wd' = [wd EXCEPT ![b] = StepCheckout(wd[b], k, remote)]
                 /\ db' = [db EXCEPT ![b] =
                       StepCommit(db[b], r, k, wd'[b].head)]
                 /\ run' = [run EXCEPT ![b] =
                               [r EXCEPT !.pc = "progress", !.k = k + 1]]
            ELSE /\ run' = [run EXCEPT ![b] = Raise(r, StepCall(k))]
                 /\ UNCHANGED <<db, fs, wd>>
    /\ UNCHANGED <<procs, nextPid, now, web, stepVars, shareVars, scanVars,
                   apiVars, supVars, remote, lastOpen, updVars, jobVars>>

\* bot = get_bot(db) before the auto-start (app.py:271).
WorkerLoad10(b) ==
    /\ run[b].pc = "load10"
    /\ run' = [run EXCEPT ![b].pc = "spawn10", ![b].attached = TRUE,
                          ![b].loaded = db[b], ![b].cur = db[b]]
    /\ UNCHANGED <<db, fs, procs, nextPid, now, web, notLife>>

\* The attribute writes after a spawn returned pid (app.py:276-278,
\* 342-344, 368-370).
StartedWrite(row, pid, t) ==
    [row EXCEPT !.process_pid = pid, !.status = "running",
                !.last_started_at = t]

\* The auto-start (app.py:273-284): start_bot_process returns a pid, or it
\* raises and the inner except sets status = "stopped".  Nothing here reads
\* bot.enabled.
WorkerSpawn10(b) ==
    /\ run[b].pc = "spawn10"
    /\ \/ /\ nextPid <= MaxPid
          /\ procs' = start_bot_process(b, run[b].cur.venv_path)
          /\ nextPid' = nextPid + 1
          /\ run' = [run EXCEPT ![b].pc = "commit10",
                        ![b].spawned = nextPid,
                        ![b].cur = StartedWrite(run[b].cur, nextPid, now)]
       \/ /\ run' = [run EXCEPT ![b].pc = "commit10",
                        ![b].spawnFailed = TRUE,
                        ![b].cur = [run[b].cur EXCEPT !.status = "stopped"]]
          /\ UNCHANGED <<procs, nextPid>>
    /\ UNCHANGED <<db, fs, now, web, notLife>>

\* db.commit() after the auto-start (app.py:285).  It stands outside the
\* inner try, so what it raises reaches the outer except clause (app.py:286).
WorkerCommit10(b) ==
    /\ run[b].pc = "commit10"
    /\ \E ok \in BOOLEAN :
         IF ok
         THEN /\ db' = [db EXCEPT ![b] =
                           Flush(db[b], run[b].loaded, run[b].cur)]
              /\ run' = [run EXCEPT ![b].pc = "ended",
                                    ![b].loaded = NoRow, ![b].cur = NoRow,
                                    ![b].attached = FALSE]
         ELSE /\ run' = [run EXCEPT ![b] = Raise(run[b], "commit")]
              /\ db' = db
    /\ UNCHANGED <<fs, procs, nextPid, now, web, notLife>>

\* The first statement of the except clause (app.py:287):
\* _update_progress(bot_id, 10, f"Ошибка: {e}", status="failed").  Nothing
\* catches what it raises: the thread ends.
WorkerFailProgress(b) ==
    /\ run[b].pc = "h_progress"
    /\ \E ok \in BOOLEAN :
         IF ok
         THEN /\ db' = [db EXCEPT ![b] =
                 ProgressWrite(db[b], 10, ErrorMessage(run[b].exc), "failed")]
              /\ run' = [run EXCEPT ![b].pc = "h_status"]
         ELSE /\ run' = [run EXCEPT ![b].pc = "crashed"]
              /\ db' = db
    /\ UNCHANGED <<fs, procs, nextPid, now, web, notLife>>

\* The rest of the except clause (app.py:288-291): reload the row, set
\* status = "errored", commit.
WorkerFailStatus(b) ==
    /\ run[b].pc = "h_status"
    /\ \E ok \in BOOLEAN :
         IF ok
         THEN /\ db' = [db EXCEPT ![b] =
                    Flush(db[b], db[b], [db[b] EXCEPT !.status = "errored"])]
              /\ run' = [run EXCEPT ![b].pc = "ended"]
         ELSE /\ run' = [run EXCEPT ![b].pc = "crashed"]
              /\ db' = db
    /\ UNCHANGED <<fs, procs, nextPid, now, web, notLife>>

-----------------------------------------------------------------------------
(* The lifecycle request handlers: app.py start_bot, restart_bot, stop_bot *)

WebIdle == [op |-> "none", b |-> 0, pc |-> "idle",
            loaded |-> NoRow, cur |-> NoRow]

\* The attribute writes of stop_bot (app.py:507-509).
StoppedWrite(row, t) ==
    [row EXCEPT !.process_pid = NoPid, !.status = "stopped",
                !.last_stopped_at = t]

\* start_bot up to the spawn (app.py:327-340): not found, setup not done
\* and "already running" return without touching anything.
StartBegin(t, b) ==
    /\ web[t].pc = "idle"
    /\ IF /\ db[b].exists
          /\ db[b].setup_status = "done"
          /\ ~is_process_running(db[b].process_pid)
       THEN web' = [web EXCEPT ![t] = [op |-> "start", b |-> b, pc |-> "spawn",
                                       loaded |-> db[b], cur |-> db[b]]]
       ELSE web' = web
    /\ UNCHANGED <<db, fs, procs, nextPid, now, run, notLife>>

\* restart_bot up to the stop or the spawn (app.py:357-365): only a missing
\* row returns early.
RestartBegin(t, b) ==
    /\ web[t].pc = "idle"
    /\ IF db[b].exists
       THEN web' = [web EXCEPT ![t] =
                [op |-> "restart", b |-> b,
                 pc |-> IF db[b].process_pid # NoPid THEN "stop" ELSE "spawn",
                 loaded |-> db[b], cur |-> db[b]]]
       ELSE web' = web
    /\ UNCHANGED <<db, fs, procs, nextPid, now, run, notLife>>

\* stop_bot up to the stop or the attribute writes (app.py:498-509): only
\* a missing row returns early.
StopBegin(t, b) ==
    /\ web[t].pc = "idle"
    /\ IF db[b].exists
       THEN web' = [web EXCEPT ![t] =
                IF db[b].process_pid # NoPid
                THEN [op |-> "stop", b |-> b, pc |-> "stop",
                      loaded |-> db[b], cur |-> db[b]]
                ELSE [op |-> "stop", b |-> b, pc |-> "commit",
                      loaded |-> db[b], cur |-> StoppedWrite(db[b], now)]]
       ELSE web' = web
    /\ UNCHANGED <<db, fs, procs, nextPid, now, run, notLife>>

\* stop_bot_process(bot.process_pid) in restart_bot (app.py:365) and
\* stop_bot (app.py:506).
WebStop(t) ==
    /\ web[t].pc = "stop"
    /\ procs' = stop_bot_process(web[t].loaded.process_pid)
    /\ web' = [web EXCEPT ![t] =
                 IF web[t].op = "stop"
                 THEN [web[t] EXCEPT !.pc = "commit",
                                     !.cur = StoppedWrite(web[t].cur, now)]
                 ELSE [web[t] EXCEPT !.pc = "spawn"]]
    /\ UNCHANGED <<db, fs, nextPid, now, run, notLife>>

\* start_bot_process and the attribute writes in start_bot (app.py:340-344)
\* and restart_bot (app.py:366-370); if the spawn raises the request ends
\* without a commit.
WebSpawn(t) ==
    /\ web[t].pc = "spawn"
    /\ \/ /\ nextPid <= MaxPid
          /\ procs' = start_bot_process(web[t].b, web[t].cur.venv_path)
          /\ nextPid' = nextPid + 1
          /\ web' = [web EXCEPT ![t].pc = "commit",
                        ![t].cur = StartedWrite(web[t].cur, nextPid, now)]
       \/ /\ web' = [web EXCEPT ![t] = WebIdle]
          /\ UNCHANGED <<procs, nextPid>>
    /\ UNCHANGED <<db, fs, now, run, notLife>>

\* db.commit() of a handler (app.py:349, 374, 510).
WebCommit(t) ==
    /\ web[t].pc = "commit"
    /\ db' = [db EXCEPT ![web[t].b] =
                 Flush(db[web[t].b], web[t].loaded, web[t].cur)]
    /\ web' = [web EXCEPT ![t] = WebIdle]
    /\ UNCHANGED <<fs, procs, nextPid, now, run, notLife>>

-----------------------------------------------------------------------------
(* The pages that show a bot's status: app.py dashboard, bot_detail *)

\* The status dashboard shows for a bot (app.py:122); what it assigns to
\* b.status is never committed.
DashboardStatus(row) ==
    IF is_process_running(row.process_pid) THEN "running"
    ELSE IF row.status # "" THEN row.status ELSE "stopped"

\* runtime_status of the bot page (app.py:389).
DetailStatus(row) ==
    IF is_process_running(row.process_pid) THEN "running" ELSE "stopped"

-----------------------------------------------------------------------------
(* The environment *)

\* A worker process exits or crashes by itself.
ProcessExit(p) ==
    /\ procs[p].alive
    /\ procs' = [procs EXCEPT ![p].alive = FALSE]
    /\ UNCHANGED <<db, fs, nextPid, now, run, web, notLife>>

\* Time passes.
Tick ==
    /\ now < MaxTime
    /\ now' = now + 1
    /\ UNCHANGED <<db, fs, procs, nextPid, run, web, notLife>>

-----------------------------------------------------------------------------
(* The log error scanner: alerts.py *)

\* The one log path of the scanner model.
LogPath == "bot.out.log"

\* A byte of the log is a one-character string; "<ff>" is a byte that is
\* not valid UTF-8.
InvalidByte == "<ff>"

\* data.decode("utf-8", errors="ignore") (alerts.py:41): invalid bytes are
\* dropped.
Decode(data) == SelectSeq(data, LAMBDA c : c # InvalidByte)

\* re.IGNORECASE compares letters without case.
Lower(c) ==
    CASE c = "E" -> "e"
      [] c = "R" -> "r"
      [] c = "O" -> "o"
      [] c = "B" -> "b"
      [] c = "T" -> "t"
      [] OTHER -> c

\* The characters \w matches, among those the model writes to a log.
WordChars == {"a", "b", "c", "e", "i", "k", "n", "o", "p", "r", "t", "x",
              "B", "E", "O", "R", "T", "_"}

\* _error_regex (alerts.py:12): re.compile(r"\\b(error|exception|traceback)\\b",
\* re.IGNORECASE).  In a raw string "\\b" is an escaped backslash followed
\* by the letter b, so the pattern is the literal text \b, one of the three
\* words, and the literal text \b again; the alternatives are tried in order.
ErrorRegex ==
    << <<"\\", "b", "e", "r", "r", "o", "r", "\\", "b">>,
       <<"\\", "b", "e", "x", "c", "e", "p", "t", "i", "o", "n", "\\", "b">>,
       <<"\\", "b", "t", "r", "a", "c", "e", "b", "a", "c", "k", "\\", "b">> >>

\* Whether the literal lit matches text at position i, ignoring case.
LiteralAt(text, i, lit) ==
    /\ i + Len(lit) - 1 <= Len(text)
    /\ \A j \in 1..Len(lit) : Lower(text[i + j - 1]) = lit[j]

\* The length of the regex's match at position i of text, 0 if none.
MatchLenAt(text, i) ==
    IF \E a \in 1..Len(ErrorRegex) : LiteralAt(text, i, ErrorRegex[a])
    THEN Len(ErrorRegex[CHOOSE a \in 1..Len(ErrorRegex) :
                  /\ LiteralAt(text, i, ErrorRegex[a])
                  /\ \A a2 \in 1..(a - 1) : ~LiteralAt(text, i, ErrorRegex[a2])])
    ELSE 0

\* len(_error_regex.findall(text)) (alerts.py:44): the non-overlapping
\* matches, scanning from the left.
RECURSIVE FindAllFrom(_, _)
FindAllFrom(text, i) ==
    IF i > Len(text) THEN 0
    ELSE IF MatchLenAt(text, i) > 0
         THEN 1 + FindAllFrom(text, i + MatchLenAt(text, i))
         ELSE FindAllFrom(text, i + 1)

FindAllCount(text) == FindAllFrom(text, 1)

\* A lookup that forgets what was stored.
OffsetZero(offsets, path) == 0

\* _log_offsets.get(log_path, 0) (alerts.py:33, 36, 50)
OffsetOf(offsets, path) ==
    IF path \in DOMAIN offsets THEN offsets[path] ELSE 0

\* A read that ignores the seek and returns the file from its beginning.
ReadFromBeginning(data, start) == data

\* f.seek(start); f.read() (alerts.py:37-38): the bytes from start to the
\* end of the file, none if start is at or past the end.
ReadFrom(data, start) ==
    IF start >= Len(data) THEN <<>> ELSE SubSeq(data, start + 1, Len(data))

\* What a log line may be: the texts appended to the log in the model.
Chunks ==
    { <<"e", "r", "r", "o", "r", "\n">>,
      <<"E", "R", "R", "O", "R", " ">>,
      <<"t", "e", "r", "r", "o", "r", " ">>,
      <<"e", "r", InvalidByte, "r", "o", "r">>,
      <<"\\", "b", "e", "r", "r", "o", "r", "\\", "b">>,
      <<"o", "k", "\n">> }

NoScan == [done |-> FALSE, second |-> FALSE, start |-> 0, data |-> <<>>,
           offset |-> 0, matches |-> 0, alerted |-> FALSE,
           raised |-> FALSE]

\* The worker process opens its log in append mode
\* (process_manager.py:84): the file comes to exist.
LogCreate ==
    /\ ~logFile.exists
    /\ logFile' = [exists |-> TRUE, data |-> <<>>]
    /\ UNCHANGED <<logOffsets, lastScan, scanned, alerts, notScan>>

\* The worker process writes to its log.
LogAppend ==
    /\ logFile.exists
    /\ \E c \in Chunks :
         /\ Len(logFile.data) + Len(c) <= MaxLogLen
         /\ logFile' = [logFile EXCEPT !.data = logFile.data \o c]
    /\ UNCHANGED <<logOffsets, lastScan, scanned, alerts, notScan>>

\* The log file is removed or rotated away; the stored offset stays.
LogRemove ==
    /\ logFile.exists
    /\ logFile' = [exists |-> FALSE, data |-> <<>>]
    /\ UNCHANGED <<logOffsets, lastScan, scanned, alerts, notScan>>

\* scan_log_for_errors(bot_name, log_path) (alerts.py:28-51), as
\* log_scan_job calls it once a minute (scheduler.py:50-62): the file is
\* missing (alerts.py:33-34); or open, seek or read raises and the except
\* clause returns (alerts.py:50-51); or the new bytes are read and searched.
Scan ==
    IF ~logFile.exists
    THEN /\ lastScan' = [NoScan EXCEPT !.done = TRUE,
                            !.second = lastScan.done,
                            !.start = OffsetOf(logOffsets, LogPath),
                            !.offset = OffsetOf(logOffsets, LogPath)]
         /\ UNCHANGED <<logFile, logOffsets, scanned, alerts, notScan>>
    ELSE \/ /\ lastScan' = [NoScan EXCEPT !.done = TRUE,
                               !.second = lastScan.done,
                               !.start = OffsetOf(logOffsets, LogPath),
                               !.offset = OffsetOf(logOffsets, LogPath),
                               !.raised = TRUE]
            /\ UNCHANGED <<logFile, logOffsets, scanned, alerts, notScan>>
         \/ LET start == OffsetOf(logOffsets, LogPath)
                data == ReadFrom(logFile.data, start)
                new_offset == start + Len(data)
                matches == FindAllCount(Decode(data))
            IN /\ alerts' = IF matches > 0 THEN alerts + 1 ELSE alerts
               /\ logOffsets' = [p \in DOMAIN logOffsets \cup {LogPath} |->
                                   IF p = LogPath THEN new_offset
                                   ELSE logOffsets[p]]
               /\ lastScan' = [done |-> TRUE, second |-> lastScan.done,
                               start |-> start, data |-> data,
                               offset |-> new_offset, matches |-> matches,
                               alerted |-> matches > 0, raised |-> FALSE]
               /\ scanned' = scanned \o data
               /\ UNCHANGED <<logFile, notScan>>

-----------------------------------------------------------------------------
(* The supervisor's terminate, statement by statement:                     *)
(* process_manager.py stop_bot_process                                     *)

SupIdle == [pc |-> "idle", pid |-> NoPid]

\* A caller spawns a worker process (process_manager.py:97-105).
SupSpawn ==
    /\ nextPid <= MaxPid
    /\ procs' = start_bot_process(1, BotVenv)
    /\ nextPid' = nextPid + 1
    /\ UNCHANGED <<signals, sup, notSup>>

\* p = psutil.Process(pid) (process_manager.py:109-112): NoSuchProcess is
\* caught and the call returns.
StopLocate(pid) ==
    /\ sup.pc = "idle"
    /\ sup' = [pc |-> IF procs[pid].alive THEN "children" ELSE "returned",
               pid |-> pid]
    /\ UNCHANGED <<procs, nextPid, signals, notSup>>

\* p.children(recursive=True) (process_manager.py:113-117): outside any try,
\* it raises NoSuchProcess when the process is gone by now.  What the
\* children do with their signal is not followed.
StopChildren ==
    /\ sup.pc = "children"
    /\ sup' = [sup EXCEPT !.pc = IF procs[sup.pid].alive THEN "terminate"
                                 ELSE "raised"]
    /\ UNCHANGED <<procs, nextPid, signals, notSup>>

\* p.terminate() (process_manager.py:118): outside any try as well.
StopTerminate ==
    /\ sup.pc = "terminate"
    /\ IF procs[sup.pid].alive
       THEN /\ signals' = [signals EXCEPT ![sup.pid] = "term"]
            /\ sup' = [sup EXCEPT !.pc = "wait"]
       ELSE /\ sup' = [sup EXCEPT !.pc = "raised"]
            /\ signals' = signals
    /\ UNCHANGED <<procs, nextPid, notSup>>

\* p.wait(timeout=10) (process_manager.py:119-121): it returns once the
\* process is gone; while the process lives the timeout may expire.
StopWait ==
    /\ sup.pc = "wait"
    /\ sup' = [sup EXCEPT !.pc = IF procs[sup.pid].alive THEN "kill"
                                 ELSE "returned"]
    /\ UNCHANGED <<procs, nextPid, signals, notSup>>

\* p.kill() (process_manager.py:122): the signal is sent and the function
\* returns; nothing waits for the process to be gone.  NoSuchProcess is not
\* caught here either.
StopKill ==
    /\ sup.pc = "kill"
    /\ IF procs[sup.pid].alive
       THEN /\ signals' = [signals EXCEPT ![sup.pid] = "kill"]
            /\ sup' = [sup EXCEPT !.pc = "returned"]
       ELSE /\ sup' = [sup EXCEPT !.pc = "raised"]
            /\ signals' = signals
    /\ UNCHANGED <<procs, nextPid, notSup>>

\* The caller goes on after the call returned or raised.
StopOver ==
    /\ sup.pc \in {"returned", "raised"}
    /\ sup' = SupIdle
    /\ UNCHANGED <<procs, nextPid, signals, notSup>>

\* A process acts on the signal it was sent: it exits on SIGTERM (a process
\* that ignores SIGTERM never takes this step), it is gone after SIGKILL.
ProcessSignalled(p) ==
    /\ procs[p].alive
    /\ signals[p] # "none"
    /\ procs' = [procs EXCEPT ![p].alive = FALSE]
    /\ signals' = [signals EXCEPT ![p] = "none"]
    /\ UNCHANGED <<nextPid, sup, notSup>>

-----------------------------------------------------------------------------
(* The manual update: app.py update_repo, with repo_manager.py pull_latest *)

\* pull_latest (repo_manager.py:45-61) on checkout w with the upstream at
\* revision rev: the head before, then fetch, checkout and pull, which
\* raise when ok is false, then the head after.
pull_latest(w, ok, rev) ==
    IF ok
    THEN [wd |-> [w EXCEPT !.head = rev], raised |-> FALSE,
          before |-> w.head, after |-> rev]
    ELSE [wd |-> w, raised |-> TRUE, before |-> w.head, after |-> w.head]

\* clone_or_open_repo, then pull_latest (app.py:685-686,
\* scheduler.py:33-34): ok says whether the network operations succeed.
Sync(w, ok, rev) ==
    LET o == clone_or_open_repo(w, "master",
                 IF ok THEN Branches \cup {DefaultBranch} ELSE {}, TRUE, rev)
    IN IF o.error # "none"
       THEN [wd |-> o.wd, raised |-> TRUE, before |-> NoRev, after |-> NoRev]
       ELSE pull_latest(o.wd, ok, rev)

UpdIdle == [pc |-> "idle", b |-> 0, loaded |-> NoRow, cur |-> NoRow,
            before |-> NoRev, after |-> NoRev, report |-> "none",
            raisedAt |-> "none", stopped |-> NoPid]

\* Where update_repo goes after a failed sync, taking the failure for a
\* change.
AfterSyncIgnoringError(r, enabled) ==
    IF r.raised \/ r.before # r.after
    THEN (IF enabled THEN "restart" ELSE "commit")
    ELSE "return"

\* Where update_repo goes after the sync (app.py:684-703): to the except
\* clause if it raised, on to the restart or straight to the commit if the
\* revision changed, to the "no updates" message otherwise.
AfterSync(r, enabled) ==
    IF r.raised THEN "return"
    ELSE IF r.before # r.after
         THEN (IF enabled THEN "restart" ELSE "commit")
         ELSE "return"

\* What update_repo tells the caller after the sync.
SyncReport(r) ==
    IF r.raised THEN "error"
    ELSE IF r.before # r.after THEN "pending" ELSE "unchanged"

\* update_repo up to the sync (app.py:676-683).
UpdateBegin(b) ==
    /\ upd.pc = "idle"
    /\ db[b].exists
    /\ upd' = [UpdIdle EXCEPT !.pc = "sync", !.b = b,
                              !.loaded = db[b], !.cur = db[b]]
    /\ UNCHANGED <<db, procs, nextPid, now, remote, wd, notUpd>>

\* The sync and the branch on its result (app.py:684-689, 699-703).
UpdateSync ==
    /\ upd.pc = "sync"
    /\ \E ok \in BOOLEAN :
         LET r == Sync(wd[upd.b], ok, remote)
         IN /\ wd' = [wd EXCEPT ![upd.b] = r.wd]
            /\ upd' = [upd EXCEPT
                  !.pc = AfterSync(r, upd.cur.enabled),
                  !.before = r.before, !.after = r.after,
                  !.report = SyncReport(r),
                  !.raisedAt = IF r.raised THEN "sync" ELSE "none",
                  !.cur = IF ~r.raised /\ r.before # r.after
                          THEN [upd.cur EXCEPT !.last_commit = r.after]
                          ELSE upd.cur]
    /\ UNCHANGED <<db, procs, nextPid, now, remote, notUpd>>

\* The old process is stopped if it is recorded and alive
\* (app.py:690-691); if stop_bot_process raises, the except clause rolls
\* the session back and reports the error (app.py:701-703).
UpdateStop ==
    /\ upd.pc = "restart"
    /\ IF is_process_running(upd.cur.process_pid)
       THEN \E o \in StopOutcomes(upd.cur.process_pid) :
              /\ procs' = o.procs
              /\ upd' = IF o.raised
                        THEN [upd EXCEPT !.pc = "return", !.report = "error",
                                         !.raisedAt = "stop",
                                         !.cur = upd.loaded]
                        ELSE [upd EXCEPT !.pc = "spawn",
                                 !.stopped =
                                    IF o.procs # procs
                                    THEN upd.cur.process_pid ELSE NoPid]
       ELSE /\ procs' = procs
            /\ upd' = [upd EXCEPT !.pc = "spawn"]
    /\ UNCHANGED <<db, nextPid, now, remote, wd, notUpd>>

\* The new process is spawned and recorded on the object (app.py:692-696);
\* if the spawn raises, the except clause rolls the session back and
\* reports the error (app.py:701-703).
UpdateSpawn ==
    /\ upd.pc = "spawn"
    /\ \/ /\ nextPid <= MaxPid
          /\ procs' = start_bot_process(upd.b, upd.cur.venv_path)
          /\ nextPid' = nextPid + 1
          /\ upd' = [upd EXCEPT !.pc = "commit",
                        !.cur = StartedWrite(upd.cur, nextPid, now)]
       \/ /\ upd' = [upd EXCEPT !.pc = "return", !.report = "error",
                                !.raisedAt = "spawn", !.cur = upd.loaded]
          /\ UNCHANGED <<procs, nextPid>>
    /\ UNCHANGED <<db, now, remote, wd, notUpd>>

\* db.commit() and the "updated" message (app.py:697-698).
UpdateCommit ==
    /\ upd.pc = "commit"
    /\ db' = [db EXCEPT ![upd.b] = Flush(db[upd.b], upd.loaded, upd.cur)]
    /\ upd' = [upd EXCEPT !.pc = "return", !.report = "changed"]
    /\ UNCHANGED <<procs, nextPid, now, remote, wd, notUpd>>

\* The redirect (app.py:704-706).
UpdateReturn ==
    /\ upd.pc = "return"
    /\ upd' = UpdIdle
    /\ UNCHANGED <<db, procs, nextPid, now, remote, wd, notUpd>>

-----------------------------------------------------------------------------
(* The scheduler jobs: scheduler.py daily_update_job, log_scan_job *)

NoResult == [outcome |-> "pending", before |-> NoRev, after |-> NoRev,
             pid |-> NoPid]

JobIdle == [pc |-> "idle", kind |-> "none", bots |-> <<>>, i |-> 0,
            rows |-> [b \in Fleet |-> NoRow], expired |-> {},
            cur |-> NoRow, res |-> [b \in Fleet |-> NoResult]]

\* The orders in which db.query(BotModel).all() can return the rows.
QueryAll ==
    LET S == {b \in Fleet : db[b].exists}
    IN {q \in UNION {[1..n -> S] : n \in 0..Cardinality(Fleet)} :
          /\ Len(q) = Cardinality(S)
          /\ \A i, j \in 1..Len(q) : i # j => q[i] # q[j]}

\* The bot of the current iteration.
JobBot == job.bots[job.i]

\* The attributes of bot b as the job's session gives them: loaded by the
\* query, loaded again on access after a rollback expired them.
JobRow(b) == IF b \in job.expired THEN db[b] ELSE job.rows[b]

\* The except clause of one iteration with the loop left on the failure.
RollbackAndStop(j, b) ==
    [j EXCEPT !.pc = "done", !.res[b].outcome = "failed",
              !.expired = Fleet, !.cur = NoRow]

\* The except clause of one iteration of daily_update_job
\* (scheduler.py:44-45): the session is rolled back, which expires every
\* object, and the loop goes on.
Rollback(j, b) ==
    [j EXCEPT !.pc = "next", !.res[b].outcome = "failed",
              !.expired = Fleet, !.cur = NoRow]

\* daily_update_job up to the loop (scheduler.py:27-31).
DailyBegin ==
    /\ job.pc \in {"idle", "done"}
    /\ \E q \in QueryAll :
         job' = [JobIdle EXCEPT !.kind = "daily", !.bots = q, !.rows = db,
                     !.i = 1,
                     !.pc = IF Len(q) = 0 THEN "done" ELSE "sync"]
    /\ UNCHANGED <<db, procs, nextPid, wd, notJob>>

\* The sync of the current bot and the branch on its result
\* (scheduler.py:33-37).
DailySync ==
    /\ job.pc = "sync"
    /\ job.kind = "daily"
    /\ \E ok \in BOOLEAN :
         LET b == JobBot
             row == JobRow(b)
             r == Sync(wd[b], ok, remote)
             j == [job EXCEPT !.rows[b] = row, !.expired = @ \ {b},
                              !.res[b].before = r.before,
                              !.res[b].after = r.after]
         IN /\ wd' = [wd EXCEPT ![b] = r.wd]
            /\ job' = IF r.raised THEN Rollback(j, b)
                      ELSE IF r.before # r.after
                      THEN [j EXCEPT
                              !.cur = [row EXCEPT !.last_commit = r.after],
                              !.res[b].outcome = "updated",
                              !.pc = IF row.enabled THEN "restart"
                                     ELSE "commit"]
                      ELSE [j EXCEPT !.cur = row,
                                     !.res[b].outcome = "unchanged",
                                     !.pc = "commit"]
    /\ UNCHANGED <<db, procs, nextPid, notJob>>

\* The old process is stopped if it is recorded and alive
\* (scheduler.py:38-39).
DailyStop ==
    /\ job.pc = "restart"
    /\ IF is_process_running(job.cur.process_pid)
       THEN \E o \in StopOutcomes(job.cur.process_pid) :
              /\ procs' = o.procs
              /\ job' = IF o.raised THEN Rollback(job, JobBot)
                        ELSE [job EXCEPT !.pc = "spawn"]
       ELSE /\ procs' = procs
            /\ job' = [job EXCEPT !.pc = "spawn"]
    /\ UNCHANGED <<db, nextPid, wd, notJob>>

\* The new process is spawned and its pid set on the object
\* (scheduler.py:40-42).
DailySpawn ==
    /\ job.pc = "spawn"
    /\ \/ /\ nextPid <= MaxPid
          /\ procs' = start_bot_process(JobBot, NoVenv)
          /\ nextPid' = nextPid + 1
          /\ job' = [job EXCEPT !.pc = "commit",
                                !.cur.process_pid = nextPid,
                                !.res[JobBot].pid = nextPid]
       \/ /\ job' = Rollback(job, JobBot)
          /\ UNCHANGED <<procs, nextPid>>
    /\ UNCHANGED <<db, wd, notJob>>

\* db.commit() of the iteration (scheduler.py:43), which can raise when
\* there is something to write.
DailyCommit ==
    /\ job.pc = "commit"
    /\ LET b == JobBot
       IN \/ /\ db' = [db EXCEPT ![b] = Flush(db[b], job.rows[b], job.cur)]
             /\ job' = [job EXCEPT !.pc = "next", !.rows[b] = job.cur,
                                   !.cur = NoRow]
          \/ /\ job.cur # job.rows[b]
             /\ db' = db
             /\ job' = Rollback(job, b)
    /\ UNCHANGED <<procs, nextPid, wd, notJob>>

\* The loop goes to the next bot or the job ends (scheduler.py:31, 46-47).
JobNext ==
    /\ job.pc = "next"
    /\ job' = IF job.i < Len(job.bots)
              THEN [job EXCEPT !.i = @ + 1,
                       !.pc = IF job.kind = "daily" THEN "sync" ELSE "scan"]
              ELSE [job EXCEPT !.pc = "done"]
    /\ UNCHANGED <<db, procs, nextPid, wd, notJob>>

\* log_scan_job up to the loop (scheduler.py:50-54).
ScanJobBegin ==
    /\ job.pc \in {"idle", "done"}
    /\ \E q \in QueryAll :
         job' = [JobIdle EXCEPT !.kind = "scan", !.bots = q, !.rows = db,
                     !.i = 1,
                     !.pc = IF Len(q) = 0 THEN "done" ELSE "scan"]
    /\ UNCHANGED <<db, procs, nextPid, wd, notJob>>

\* One iteration of log_scan_job (scheduler.py:55-60): the scan of the
\* bot's log returns or raises, and the except clause passes.
ScanJobStep ==
    /\ job.pc = "scan"
    /\ \E ok \in BOOLEAN :
         job' = [job EXCEPT !.pc = "next",
                    !.res[JobBot].outcome = IF ok THEN "scanned"
                                            ELSE "failed"]
    /\ UNCHANGED <<db, procs, nextPid, wd, notJob>>

-----------------------------------------------------------------------------
(* The .env file: app.py _run_bot_setup, step 2 *)

\* A text is held as a sequence of pieces, so that "x in text" is "x is
\* one of the pieces"; a line NAME=value is a record of two texts.
InjectedKeys == {"BOT_TOKEN", "DATABASE_URL", "MANAGER_URL", "BOT_ID"}

\* The names and values a user declares.
EnvNames ==
    { <<"BOT_TOKEN">>, <<"MY_", "BOT_TOKEN">>, <<"DATABASE_URL">>,
      <<"MANAGER_URL">>, <<"BOT_ID">>, <<"DEBUG">> }
EnvValues == { <<"1">>, <<"see ", "BOT_ID">> }
EnvLines == [name : EnvNames, value : EnvValues]

\* The texts of at most MaxEnvLines lines, no name declared twice.
EnvTexts ==
    {t \in UNION {[1..n -> EnvLines] : n \in 0..MaxEnvLines} :
        \A i, j \in 1..Len(t) : i # j => t[i].name # t[j].name}

\* key in full_env (app.py:222, 228, 230): the substring test on the whole
\* text, names and values alike.
InText(key, text) ==
    \E i \in 1..Len(text) :
       \/ \E n \in 1..Len(text[i].name) : text[i].name[n] = key
       \/ \E n \in 1..Len(text[i].value) : text[i].value[n] = key

\* The text step 2 writes to .env (app.py:221-231) for the declared text
\* and whether bot.db_url is set.
EnvFileText(env_text, db_url) ==
    LET t1 == IF ~InText("BOT_TOKEN", env_text)
              THEN Append(env_text, [name |-> <<"BOT_TOKEN">>,
                                     value |-> <<"<token>">>])
              ELSE env_text
        t2 == IF db_url
              THEN Append(t1, [name |-> <<"DATABASE_URL">>,
                               value |-> <<"<db_url>">>])
              ELSE t1
        t3 == IF ~InText("MANAGER_URL", t2)
              THEN Append(t2, [name |-> <<"MANAGER_URL">>,
                               value |-> <<"<manager_url>">>])
              ELSE t2
    IN IF ~InText("BOT_ID", t3)
       THEN Append(t3, [name |-> <<"BOT_ID">>, value |-> <<"<id>">>])
       ELSE t3

NoEnv == [stage |-> "new", declared |-> <<>>, db_url |-> FALSE,
          written |-> <<>>]

\* create_bot stores the declared variables and the database URL of the
\* form (app.py:148-166).
DeclareEnv ==
    /\ env.stage = "new"
    /\ \E t \in EnvTexts, u \in BOOLEAN :
         env' = [env EXCEPT !.stage = "declared", !.declared = t,
                            !.db_url = u]
    /\ UNCHANGED <<lifeVars, now, scanVars, apiVars, supVars, repoVars,
                   updVars, jobVars, py, dep, shareVars>>

\* Step 2 writes the file (app.py:219-233).
WriteEnvFile ==
    /\ env.stage = "declared"
    /\ env' = [env EXCEPT !.stage = "written",
                          !.written = EnvFileText(env.declared, env.db_url)]
    /\ UNCHANGED <<lifeVars, now, scanVars, apiVars, supVars, repoVars,
                   updVars, jobVars, py, dep, shareVars>>

-----------------------------------------------------------------------------
(* The interpreter: process_manager.py resolve_python_executable *)

\* The paths of a POSIX host: the two interpreters of the requested
\* environment, what which("python3") and which("python") find, and
\* sys.executable.
VenvPython == "<venv>/bin/python"
VenvPython3 == "<venv>/bin/python3"
WhichPython3 == "/usr/bin/python3"
WhichPython == "/usr/bin/python"
SysExecutable == "/opt/manager/python"
PyPaths == {VenvPython, VenvPython3, WhichPython3, WhichPython,
            SysExecutable}

\* The candidates list (process_manager.py:34-43): which() gives a path
\* only if the file is there.
PyCandidates(venv_path, exists) ==
    (IF venv_path THEN <<VenvPython, VenvPython3>> ELSE <<>>)
    \o (IF WhichPython3 \in exists THEN <<WhichPython3>> ELSE <<>>)
    \o (IF WhichPython \in exists THEN <<WhichPython>> ELSE <<>>)
    \o <<SysExecutable>>

\* The first existing path of the list, from position i.
RECURSIVE FirstExisting(_, _, _)
FirstExisting(candidates, i, exists) ==
    IF i > Len(candidates) THEN SysExecutable
    ELSE IF candidates[i] \in exists THEN candidates[i]
    ELSE FirstExisting(candidates, i + 1, exists)

\* resolve_python_executable (process_manager.py:33-50): venv_path says
\* whether an environment was requested, exists which paths are files.
resolve_python_executable(venv_path, exists) ==
    FirstExisting(PyCandidates(venv_path, exists), 1, exists)

\* venv_path in vpy (app.py:243): the path lies in the environment.
InVenv(path) == path \in {VenvPython, VenvPython3}

NoPy == [stage |-> "new", venv_path |-> FALSE, exists |-> {},
         result |-> "none", caller |-> "none", outcome |-> "none"]

\* The state of the host when an interpreter is asked for.
PyHost ==
    /\ py.stage = "new"
    /\ \E v \in BOOLEAN, e \in SUBSET PyPaths :
         py' = [py EXCEPT !.stage = "host", !.venv_path = v, !.exists = e]
    /\ UNCHANGED <<lifeVars, now, scanVars, apiVars, supVars, repoVars,
                   updVars, jobVars, env, dep, shareVars>>

\* A caller resolves the interpreter: step 4 of the provisioning, which
\* raises if the path is outside the environment (app.py:242-244), or
\* start_bot_process, which falls back to the system interpreter if the
\* path does not exist and spawns (process_manager.py:87-105).
PyResolve ==
    /\ py.stage = "host"
    /\ \E c \in {"step4", "start_bot_process"} :
         LET r == resolve_python_executable(py.venv_path, py.exists)
         IN py' = [py EXCEPT !.stage = "resolved", !.result = r,
                     !.caller = c,
                     !.outcome =
                        IF c = "step4"
                        THEN (IF py.venv_path /\ ~InVenv(r)
                              THEN "raised" ELSE "pip runs")
                        ELSE "spawned"]
    /\ UNCHANGED <<lifeVars, now, scanVars, apiVars, supVars, repoVars,
                   updVars, jobVars, env, dep, shareVars>>

-----------------------------------------------------------------------------
(* The dependencies: app.py _run_bot_setup, step 5 *)

\* The number of times the wait sleeps at most (app.py:252).
WaitAttempts == 5

NoDep == [stage |-> "new", attempts |-> 0, manifest |-> FALSE,
          appeared |-> FALSE, installed |-> FALSE]

\* The condition of the wait loop (app.py:252).
WaitGoesOn(attempts, exists) == attempts < WaitAttempts /\ ~exists

\* A step 5 that does not look for the manifest after the wait.
NeverInstalls(exists) == FALSE

\* The test after the wait (app.py:255): pip install runs if the manifest
\* is there.
InstallsWhen(exists) == exists

\* Step 5 begins (app.py:247-251); the checkout holds requirements.txt
\* or not.
DepBegin(b) ==
    /\ dep[b].stage = "new"
    /\ \E m \in BOOLEAN :
         dep' = [dep EXCEPT ![b].stage = "wait", ![b].manifest = m]
    /\ UNCHANGED <<lifeVars, now, scanVars, apiVars, supVars, repoVars,
                   updVars, jobVars, env, py, shareVars>>

\* The file system shows requirements.txt while step 5 is at work.
ManifestAppears(b) ==
    /\ dep[b].stage \in {"wait", "test"}
    /\ ~dep[b].manifest
    /\ dep' = [dep EXCEPT ![b].manifest = TRUE, ![b].appeared = TRUE]
    /\ UNCHANGED <<lifeVars, now, scanVars, apiVars, supVars, repoVars,
                   updVars, jobVars, env, py, shareVars>>

\* One evaluation of the loop condition (app.py:252-254): sleep and count,
\* or leave the loop.
DepWait(b) ==
    /\ dep[b].stage = "wait"
    /\ dep' = IF WaitGoesOn(dep[b].attempts, dep[b].manifest)
              THEN [dep EXCEPT ![b].attempts = @ + 1]
              ELSE [dep EXCEPT ![b].stage = "test"]
    /\ UNCHANGED <<lifeVars, now, scanVars, apiVars, supVars, repoVars,
                   updVars, jobVars, env, py, shareVars>>

\* The install (app.py:255-257): pip runs if the manifest is there, and
\* what it raises ends the run in the except clause; then step 6.
DepInstall(b) ==
    /\ dep[b].stage = "test"
    /\ IF InstallsWhen(dep[b].manifest)
       THEN \E ok \in BOOLEAN :
              dep' = [dep EXCEPT ![b].installed = ok,
                         ![b].stage = IF ok THEN "step6" ELSE "failed"]
       ELSE dep' = [dep EXCEPT ![b].stage = "step6"]
    /\ UNCHANGED <<lifeVars, now, scanVars, apiVars, supVars, repoVars,
                   updVars, jobVars, env, py, shareVars>>

-----------------------------------------------------------------------------
(* The work directories: app.py create_bot, _run_bot_setup steps 1 and 2 *)

\* The names users give their bots; the bots table has no unique
\* constraint on name (models.py:36).
BotNames == {"alpha", "beta"}
NoName == "<none>"

\* workdir = os.path.abspath(os.path.join("bots", name)) (app.py:142)
WorkdirOf(name) == <<"bots", name>>

Workdirs == {WorkdirOf(n) : n \in BotNames}

\* A directory: its tree, the bot whose step 2 wrote the .env in it, the
\* bot whose repository was cloned into it.
NoShare == [tree |-> NoDir, envOf |-> 0, repoOf |-> 0]

\* create_bot registers bot b under a name and makes its work directory
\* and logs directory (app.py:134-166).
RegisterBot(b) ==
    /\ reg[b] = NoName
    /\ \E n \in BotNames :
         /\ reg' = [reg EXCEPT ![b] = n]
         /\ dirs' = [dirs EXCEPT ![WorkdirOf(n)].tree.dir = TRUE,
                                 ![WorkdirOf(n)].tree.files = TRUE]
    /\ UNCHANGED <<lifeVars, now, scanVars, apiVars, supVars, repoVars,
                   updVars, jobVars, stepVars>>

\* Step 1 of bot b's worker (app.py:214): clone_or_open_repo on the bot's
\* work directory opens the checkout that is there, or empties the
\* directory and clones the bot's repository.
ShareClone(b) ==
    /\ reg[b] # NoName
    /\ LET d == WorkdirOf(reg[b])
           r == clone_or_open_repo(dirs[d].tree, "master",
                                   Branches \cup {DefaultBranch}, TRUE,
                                   remote)
       IN dirs' = [dirs EXCEPT ![d] =
                     IF r.cloned # "none"
                     THEN [tree |-> r.wd, envOf |-> 0, repoOf |-> b]
                     ELSE [dirs[d] EXCEPT !.tree = r.wd]]
    /\ UNCHANGED <<reg, lifeVars, now, scanVars, apiVars, supVars, repoVars,
                   updVars, jobVars, stepVars>>

\* Step 2 of bot b's worker (app.py:219-233): .env is written anew with
\* the bot's token and id.
ShareEnv(b) ==
    /\ reg[b] # NoName
    /\ dirs' = [dirs EXCEPT ![WorkdirOf(reg[b])].envOf = b,
                            ![WorkdirOf(reg[b])].tree.files = TRUE]
    /\ UNCHANGED <<reg, lifeVars, now, scanVars, apiVars, supVars, repoVars,
                   updVars, jobVars, stepVars>>

-----------------------------------------------------------------------------
(* The telemetry endpoints: app.py api_stats_increment, api_ingest_message *)

\* The threads serving telemetry requests.
ApiThreads == {"a1", "a2"}

\* bot.token of the bot, another token, no token (None), the empty string.
BotToken == "bot-token"
WrongToken == "other-token"
NoToken == "<none>"
Tokens == {NoToken, "", BotToken, WrongToken}

\* The amounts a request declares in "messages" and "users".
Amounts == {1, 2}

\* The texts a worker reports.
Texts == {"hi"}

\* Python truth of a header or query value: None and "" are false.
Truthy(x) == x \notin {NoToken, ""}

\* request.headers.get("X-Bot-Token") or request.args.get("token")
\* (app.py:628, 652)
ReqToken(header, query) == IF Truthy(header) THEN header ELSE query

\* if req_token and req_token != bot.token: return 401 (app.py:629, 653)
Rejected(req_token) == Truthy(req_token) /\ req_token # BotToken

\* A bot_stats row (models.py:64-74); exists = FALSE stands for bot.stats
\* being None.
NoStats == [exists |-> FALSE, messages_count |-> 0, users_count |-> 0,
            last_activity_at |-> NoTime]

Max(a, b) == IF a >= b THEN a ELSE b

\* The attribute writes of api_stats_increment (app.py:634-638).
StatsWrite(row, inc_messages, inc_users, users_is_total, t) ==
    [row EXCEPT !.exists = TRUE,
                !.messages_count = row.messages_count + inc_messages,
                !.users_count = IF users_is_total
                                THEN Max(row.users_count, inc_users)
                                ELSE row.users_count + inc_users,
                !.last_activity_at = t]

\* The attribute writes of api_ingest_message (app.py:665-667):
\* msg.created_at has no value before the INSERT, so last_activity_at is
\* assigned None.
IngestWrite(row) ==
    [row EXCEPT !.exists = TRUE, !.last_activity_at = NoTime]

ApiIdle == [pc |-> "idle", op |-> "none", b |-> 0, req_token |-> NoToken,
            supplied |-> FALSE, messages |-> 0, users |-> 0,
            users_is_total |-> FALSE, text |-> "",
            loaded |-> NoStats, cur |-> NoStats, resp |-> 0]

\* The start of a telemetry request up to its token check (app.py:622-630,
\* 647-654): 404 for a missing bot, 401 for a rejected token.
ApiRequest(t, op, b, header, query) ==
    [ApiIdle EXCEPT
       !.op = op, !.b = b,
       !.req_token = ReqToken(header, query),
       !.supplied = (header = BotToken \/ query = BotToken),
       !.pc = IF ~db[b].exists \/ Rejected(ReqToken(header, query))
              THEN "return" ELSE "commit",
       !.resp = IF ~db[b].exists THEN 404
                ELSE IF Rejected(ReqToken(header, query)) THEN 401 ELSE 200]

\* api_stats_increment up to db.commit() (app.py:621-638).
StatsIncrementBegin(t, b) ==
    /\ api[t].pc = "idle"
    /\ \E header \in Tokens, query \in Tokens \ {""},
          inc_messages \in Amounts, inc_users \in Amounts,
          users_is_total \in BOOLEAN :
         LET r == ApiRequest(t, "stats", b, header, query)
         IN /\ stats[b].messages_count + inc_messages <= MaxCount
            /\ stats[b].users_count + inc_users <= MaxCount
            /\ api' = [api EXCEPT ![t] =
                 IF r.pc = "return" THEN r
                 ELSE [r EXCEPT !.messages = inc_messages,
                                !.users = inc_users,
                                !.users_is_total = users_is_total,
                                !.loaded = stats[b],
                                !.cur = StatsWrite(stats[b], inc_messages,
                                          inc_users, users_is_total, now)]]
    /\ UNCHANGED <<stats, messages, now, notApi>>

\* api_ingest_message up to db.commit() (app.py:646-667).
IngestMessageBegin(t, b) ==
    /\ api[t].pc = "idle"
    /\ Len(messages) < MaxMessages
    /\ \E header \in Tokens, query \in Tokens \ {""}, text \in Texts :
         LET r == ApiRequest(t, "message", b, header, query)
         IN api' = [api EXCEPT ![t] =
                 IF r.pc = "return" THEN r
                 ELSE [r EXCEPT !.text = text,
                                !.loaded = stats[b],
                                !.cur = IngestWrite(stats[b])]]
    /\ UNCHANGED <<stats, messages, now, notApi>>

\* db.commit() of a telemetry request (app.py:639, 668) and its response.
\* A new bot_stats row is inserted; bot_id is unique (models.py:68), so the
\* INSERT fails when another request has inserted one meanwhile, and the
\* request ends with an error and nothing written.
ApiCommit(t) ==
    /\ api[t].pc = "commit"
    /\ LET b == api[t].b
           conflict == ~api[t].loaded.exists /\ stats[b].exists
       IN IF conflict
          THEN /\ api' = [api EXCEPT ![t].pc = "return", ![t].resp = 500]
               /\ UNCHANGED <<stats, messages>>
          ELSE /\ stats' = [stats EXCEPT ![b] =
                              Flush(stats[b], api[t].loaded, api[t].cur)]
               /\ messages' = IF api[t].op = "message"
                              THEN Append(messages,
                                     [bot_id |-> b, text |-> api[t].text])
                              ELSE messages
               /\ api' = [api EXCEPT ![t].pc = "return"]
    /\ UNCHANGED <<now, notApi>>

\* The response is sent and the thread is free again (app.py:640-642,
\* 669-671).
ApiReturn(t) ==
    /\ api[t].pc = "return"
    /\ api' = [api EXCEPT ![t] = ApiIdle]
    /\ UNCHANGED <<stats, messages, now, notApi>>

-----------------------------------------------------------------------------
(* Specifications *)

Init ==
    /\ db = [b \in Fleet |-> NoRow]
    /\ fs = [b \in Fleet |-> NoFs]
    /\ procs = [p \in Pids |-> NoProc]
    /\ nextPid = 1
    /\ now = 1
    /\ run = [b \in Fleet |-> NoRun]
    /\ web = [t \in WebThreads |-> WebIdle]
    /\ logFile = [exists |-> FALSE, data |-> <<>>]
    /\ logOffsets = [p \in {} |-> 0]
    /\ lastScan = NoScan
    /\ scanned = <<>>
    /\ alerts = 0
    /\ stats = [b \in Fleet |-> NoStats]
    /\ messages = <<>>
    /\ api = [t \in ApiThreads |-> ApiIdle]
    /\ signals = [p \in Pids |-> "none"]
    /\ sup = SupIdle
    /\ remote = 1
    /\ wd = [b \in Fleet |-> NoDir]
    /\ lastOpen = NoOpen
    /\ upd = UpdIdle
    /\ job = JobIdle
    /\ env = NoEnv
    /\ py = NoPy
    /\ dep = [b \in Fleet |-> NoDep]
    /\ reg = [b \in Fleet |-> NoName]
    /\ dirs = [d \in Workdirs |-> NoShare]

\* The lifecycle of the bots: provisioning, start, stop, restart, the pages.
Next ==
    \/ \E b \in Bots : CreateBot(b)
    \/ \E b \in Bots : WorkerBegin(b)
    \/ \E b \in Bots : WorkerProgress(b)
    \/ \E b \in Bots : WorkerAction(b)
    \/ \E b \in Bots : WorkerLoad10(b)
    \/ \E b \in Bots : WorkerSpawn10(b)
    \/ \E b \in Bots : WorkerCommit10(b)
    \/ \E b \in Bots : WorkerFailProgress(b)
    \/ \E b \in Bots : WorkerFailStatus(b)
    \/ \E t \in WebThreads, b \in Bots : StartBegin(t, b)
    \/ \E t \in WebThreads, b \in Bots : RestartBegin(t, b)
    \/ \E t \in WebThreads, b \in Bots : StopBegin(t, b)
    \/ \E t \in WebThreads : WebStop(t)
    \/ \E t \in WebThreads : WebSpawn(t)
    \/ \E t \in WebThreads : WebCommit(t)
    \/ \E p \in Pids : ProcessExit(p)
    \/ Tick

Spec == Init /\ [][Next]_vars

\* The log scanner and the log it reads.
ScanNext ==
    \/ LogCreate
    \/ LogAppend
    \/ Scan

SpecScan == Init /\ [][ScanNext]_vars

\* The scanner on a log that is also removed and written anew.
RotateNext ==
    \/ LogCreate
    \/ LogAppend
    \/ LogRemove
    \/ Scan

SpecRotate == Init /\ [][RotateNext]_vars

\* The telemetry endpoints, for the bots the manager has registered.
ApiNext ==
    \/ \E b \in Bots : CreateBot(b)
    \/ \E t \in ApiThreads, b \in Bots : StatsIncrementBegin(t, b)
    \/ \E t \in ApiThreads, b \in Bots : IngestMessageBegin(t, b)
    \/ \E t \in ApiThreads : ApiCommit(t)
    \/ \E t \in ApiThreads : ApiReturn(t)

SpecApi == Init /\ [][ApiNext]_vars

\* Calls of stop_bot_process on the pids of processes that live, exit by
\* themselves, or never existed.
StopNext ==
    \/ SupSpawn
    \/ \E pid \in Pids : StopLocate(pid)
    \/ StopChildren
    \/ StopTerminate
    \/ StopWait
    \/ StopKill
    \/ StopOver
    \/ \E p \in Pids : ProcessSignalled(p)
    \/ \E p \in Pids : ProcessExit(p)

SpecStop == Init /\ [][StopNext]_vars

\* Calls of clone_or_open_repo on a work directory that is missing, empty,
\* holds a checkout, or holds a damaged one.
RepoNext ==
    \/ \E b \in Bots : CreateBot(b)
    \/ \E b \in Bots : OpenOrClone(b)
    \/ \E b \in Bots : WriteFiles(b)
    \/ \E b \in Bots : CorruptCheckout(b)
    \/ RemotePush

SpecRepo == Init /\ [][RepoNext]_vars

\* update_repo requests for the registered bots, while upstream moves and
\* worker processes exit.
UpdateNext ==
    \/ \E b \in Bots : CreateBot(b)
    \/ RemotePush
    \/ \E b \in Bots : UpdateBegin(b)
    \/ UpdateSync
    \/ UpdateStop
    \/ UpdateSpawn
    \/ UpdateCommit
    \/ UpdateReturn
    \/ \E p \in Pids : ProcessExit(p)
    \/ Tick

SpecUpdate == Init /\ [][UpdateNext]_vars

\* The scheduler jobs over the registered bots, while upstream moves and
\* worker processes exit.
JobsNext ==
    \/ \E b \in Fleet : CreateBot(b)
    \/ RemotePush
    \/ DailyBegin
    \/ DailySync
    \/ DailyStop
    \/ DailySpawn
    \/ DailyCommit
    \/ JobNext
    \/ ScanJobBegin
    \/ ScanJobStep
    \/ \E p \in Pids : ProcessExit(p)

SpecJobs == Init /\ [][JobsNext]_vars

\* The .env file of a bot for every declaration of its variables.
EnvNext ==
    \/ DeclareEnv
    \/ WriteEnvFile

SpecEnv == Init /\ [][EnvNext]_vars

\* The interpreter resolved on every host.
PyNext ==
    \/ PyHost
    \/ PyResolve

SpecPy == Init /\ [][PyNext]_vars

\* Step 5 of the workers of the bots; a worker thread that can take a
\* step takes it in the end.
DepNext ==
    \/ \E b \in Fleet : DepBegin(b)
    \/ \E b \in Fleet : ManifestAppears(b)
    \/ \E b \in Fleet : DepWait(b)
    \/ \E b \in Fleet : DepInstall(b)

\* Bots registered under the names their users chose, and the first two
\* steps of their workers.
ShareNext ==
    \/ \E b \in Fleet : RegisterBot(b)
    \/ \E b \in Fleet : ShareClone(b)
    \/ \E b \in Fleet : ShareEnv(b)
    \/ RemotePush

SpecShare == Init /\ [][ShareNext]_vars

SpecDep ==
    /\ Init
    /\ [][DepNext]_vars
    /\ \A b \in Fleet : WF_vars(DepWait(b)) /\ WF_vars(DepInstall(b))

-----------------------------------------------------------------------------
(* Properties of the lifecycle, checked under Spec *)

\* The worker thread of bot b has returned, or died of an exception that
\* nothing caught.
RunOver(r) == r.pc \in {"ended", "crashed"}

\* C1: a bot never has more than one live OS process spawned for it, and,
\* when no handler is between spawning and committing for the bot, its
\* process_pid is absent or is the pid of that one live process.
C1_AtMostOneLiveProcess ==
    \A b \in Bots :
        /\ Cardinality(LiveOf(b)) <= 1
        /\ ( /\ run[b].pc \notin {"spawn10", "commit10"}
             /\ \A t \in WebThreads : web[t].b # b )
           => \/ db[b].process_pid = NoPid
              \/ LiveOf(b) \subseteq {db[b].process_pid}

\* C2: once the provisioning worker of a bot is over, the bot's
\* setup_status is done or failed (it does not stay running for ever).
C2_RunOverImpliesTerminalStatus ==
    \A b \in Bots :
        RunOver(run[b]) => db[b].setup_status \in {"done", "failed"}

C4_SetupStepAdvancesInOrder ==
    /\ [](\A b \in Bots : db[b].setup_step <= db[b].setup_total)
    /\ [][\A b \in Bots :
            /\ (~db[b].exists /\ db'[b].exists) => db'[b].setup_step = 0
            /\ ( /\ db[b].setup_status = "running"
                 /\ db'[b].setup_step # db[b].setup_step )
               => /\ db'[b].setup_step > db[b].setup_step
                  /\ db'[b].setup_status \in {"running", "done"}
                       => db'[b].setup_step = db[b].setup_step + 1
        ]_vars

\* C4 is exercised: a run has advanced to step 9 and is still running.
C4_Witness ==
    \E b \in Bots :
        db[b].setup_status = "running" /\ db[b].setup_step = 9

\* C5: if one of steps 1 to 9 raised, then when the run is over the bot has
\* setup_status = failed, status = errored and the exception's text in
\* setup_message, and the run has spawned no process; after the exception no
\* step of the run executes any more.
C5_FailedStepEndsRunErrored ==
    [][\A b \in Bots :
          /\ ( /\ run'[b].raisedAt \in 1..9
               /\ ~RunOver(run[b])
               /\ RunOver(run'[b]) )
             => /\ db'[b].setup_status = "failed"
                /\ db'[b].status = "errored"
                /\ db'[b].setup_message = ErrorMessage(run'[b].exc)
                /\ run'[b].spawned = NoPid
          /\ run[b].raisedAt \in 1..9
             => run'[b].pc \in {"h_progress", "h_status", "ended", "crashed"}
      ]_vars

\* C6: a provisioning run that succeeds leaves setup_status = done and
\* status = stopped, or status = running only if the bot is enabled; for a
\* bot that is not enabled it spawns no process and leaves status = stopped
\* and process_pid absent.
C6_AutoStartOnlyIfEnabled ==
    [][\A b \in Bots :
          (run[b].pc = "commit10" /\ run'[b].pc = "ended")
          => /\ db'[b].setup_status = "done"
             /\ \/ db'[b].status = "stopped"
                \/ db'[b].status = "running" /\ db'[b].enabled
             /\ ~db'[b].enabled
                => /\ run'[b].spawned = NoPid
                   /\ db'[b].status = "stopped"
                   /\ db'[b].process_pid = NoPid
      ]_vars

\* C7: if the auto-spawn after step 10 failed, the run returns with
\* setup_status = done, status = stopped and process_pid absent.
C7_SpawnFailureLeavesRunDone ==
    [][\A b \in Bots :
          (run'[b].spawnFailed /\ run[b].pc # "ended" /\ run'[b].pc = "ended")
          => /\ db'[b].setup_status = "done"
             /\ db'[b].status = "stopped"
             /\ db'[b].process_pid = NoPid
      ]_vars

\* The columns start, stop and restart write.
LifecycleColumns(row) ==
    <<row.process_pid, row.status, row.last_started_at, row.last_stopped_at>>

\* C8: a step of a start, stop or restart request for a bot whose
\* setup_status is not done neither spawns nor terminates a process nor
\* changes the bot's process_pid, status or start/stop timestamps.
C8_LifecycleGuardedBySetupDone ==
    [][\A t \in WebThreads, b \in Bots :
          ( /\ web'[t] # web[t]
            /\ (web[t].b = b \/ web'[t].b = b)
            /\ db[b].setup_status # "done" )
          => /\ procs' = procs
             /\ LifecycleColumns(db'[b]) = LifecycleColumns(db[b])
      ]_vars

\* C9: whenever a bot's recorded process is absent or not alive, neither the
\* dashboard nor the bot page shows the bot as running.
C9_DeadBotNeverShownRunning ==
    \A b \in Bots :
        (db[b].exists /\ ~is_process_running(db[b].process_pid))
        => /\ DashboardStatus(db[b]) # "running"
           /\ DetailStatus(db[b]) # "running"

-----------------------------------------------------------------------------
(* Properties of the log scanner, checked under SpecScan *)

\* Whether text contains the word w as a whole word, in any letter case.
ContainsWord(text, w) ==
    \E i \in 1..Len(text) :
        /\ LiteralAt(text, i, w)
        /\ i = 1 \/ text[i - 1] \notin WordChars
        /\ i + Len(w) > Len(text) \/ text[i + Len(w)] \notin WordChars

\* C10: a scan that follows another scan and reads text containing the word
\* "error" reports at least one match and emits a notification.
C10_ErrorWordIsReported ==
    ( /\ lastScan.done
      /\ lastScan.second
      /\ ContainsWord(Decode(lastScan.data), <<"e", "r", "r", "o", "r">>) )
    => /\ lastScan.matches >= 1
       /\ lastScan.alerted

\* C11: for the append-only log, the bytes the scans have read, in order, are
\* exactly the file up to the stored offset (no byte twice, none skipped);
\* a scan of the file returns the offset it started at plus the bytes it
\* read, which is the file's length, and stores it, whatever matched; and a
\* scan with no growth since the stored offset returns that same offset and
\* zero matches.
C11_OffsetAdvancesByBytesRead ==
    /\ [](/\ OffsetOf(logOffsets, LogPath) <= Len(logFile.data)
          /\ scanned = SubSeq(logFile.data, 1,
                              OffsetOf(logOffsets, LogPath)))
    /\ [][(logFile.exists /\ lastScan' # lastScan /\ ~lastScan'.raised)
            => /\ lastScan'.offset = lastScan'.start + Len(lastScan'.data)
               /\ lastScan'.start = OffsetOf(logOffsets, LogPath)
               /\ lastScan'.offset = Len(logFile.data)
               /\ OffsetOf(logOffsets', LogPath) = lastScan'.offset
               /\ OffsetOf(logOffsets, LogPath) = Len(logFile.data)
                    => /\ lastScan'.offset = OffsetOf(logOffsets, LogPath)
                       /\ lastScan'.matches = 0
        ]_vars

\* C11 is exercised: a scan after an earlier one started past the beginning
\* of the file, read appended bytes and found nothing to report.
C11_Witness ==
    /\ lastScan.second
    /\ lastScan.start > 0
    /\ Len(lastScan.data) > 0
    /\ lastScan.matches = 0

-----------------------------------------------------------------------------
(* Properties of the telemetry endpoints, checked under SpecApi *)

\* C12: a stats-increment request carrying a token different from the bot's
\* token is answered Unauthorized and never reaches the commit; the commit
\* of a stats-increment request carrying the bot's token increases
\* messages_count by exactly the declared messages and users_count by
\* exactly the declared users.
C12_StatsIncrementExact ==
    [][\A t \in ApiThreads :
          /\ ( /\ api[t].pc = "idle"
               /\ api'[t].op = "stats"
               /\ db[api'[t].b].exists
               /\ Truthy(api'[t].req_token)
               /\ api'[t].req_token # BotToken )
             => /\ api'[t].resp = 401
                /\ api'[t].pc = "return"
                /\ stats' = stats
          /\ ( /\ api[t].pc = "commit"
               /\ api'[t].pc = "return"
               /\ api[t].op = "stats"
               /\ api[t].req_token = BotToken )
             => /\ stats'[api[t].b].messages_count
                     = stats[api[t].b].messages_count + api[t].messages
                /\ stats'[api[t].b].users_count
                     = stats[api[t].b].users_count + api[t].users
      ]_vars

\* C13: a step changes the statistics or stores a message only if it is the
\* commit of a request that supplied the bot's token by header or by query
\* value; and a request for a bot that supplies no token is answered
\* Unauthorized.
C13_TelemetryAuthenticated ==
    [][/\ (stats' # stats \/ messages' # messages)
          => \E t \in ApiThreads :
                /\ api[t].pc = "commit"
                /\ api'[t].pc = "return"
                /\ api[t].supplied
       /\ \A t \in ApiThreads :
             ( /\ api[t].pc = "idle"
               /\ api'[t].pc # "idle"
               /\ db[api'[t].b].exists
               /\ ~Truthy(api'[t].req_token) )
             => api'[t].resp = 401
      ]_vars

-----------------------------------------------------------------------------
(* Properties of stop_bot_process, checked under SpecStop *)

\* C14: when stop_bot_process returns normally, is_process_running of its
\* pid is false, whether the process exited after the graceful signal or
\* the timeout expired and the kill was sent.
C14_ReturnedImpliesNotAlive ==
    [][(sup.pc # "returned" /\ sup'.pc = "returned")
         => ~(sup'.pid # NoPid /\ procs'[sup'.pid].alive)
      ]_vars

\* C15: stop_bot_process never ends with an error for a process that is
\* gone, whether the process was gone before the call or went away after
\* it was located.
C15_GoneProcessIsNoOp ==
    [][sup'.pc # "raised"]_vars

-----------------------------------------------------------------------------
(* Properties of the repository synchronizer, checked under SpecRepo *)

\* C19: a call of clone_or_open_repo on a work directory that holds a valid
\* checkout deletes nothing, clones nothing, leaves the directory as it is
\* and returns the checkout at the revision it was at.
C19_OpenIsIdempotent ==
    [][\A b \in Bots :
          (lastOpen' # lastOpen /\ wd[b].dir /\ wd[b].git = "valid")
          => /\ wd'[b] = wd[b]
             /\ ~lastOpen'.deleted
             /\ lastOpen'.tried = 0
             /\ lastOpen'.error = "none"
             /\ lastOpen'.head = wd[b].head
      ]_vars

\* C19 is exercised: a second call found the checkout an earlier call had
\* cloned, with files beside it and the upstream moved on since.
C19_Witness ==
    /\ lastOpen.calls >= 2
    /\ lastOpen.wasValid
    /\ \E b \in Bots : wd[b].files /\ wd[b].head < remote

\* C20: a fresh clone tries the requested branch, then master and main
\* except the requested one, then the default; it returns the first
\* candidate whose clone succeeds and tries none after it; if every attempt
\* fails, the error raised is the one of the attempt on the requested branch.
C20_CloneFallbackOrder ==
    [][(lastOpen' # lastOpen /\ ~lastOpen'.wasValid)
         => LET c == Candidates(lastOpen'.branch)
                r == lastOpen'
            IN /\ r.cloned # "none"
                  => /\ r.tried \in 1..Len(c)
                     /\ c[r.tried] = r.cloned
                     /\ \A i \in 1..(r.tried - 1) : c[i] \notin r.ok
               /\ r.cloned = "none"
                  => /\ r.tried = Len(c)
                     /\ r.error = r.branch
      ]_vars

\* C16: update_repo reports "changed" exactly when the sync returned two
\* different revisions; when it changed, the row holds the new revision as
\* last_commit on return and, for an enabled bot, the recorded process is
\* no longer alive when the new one is spawned and the new pid is recorded;
\* when it did not change, the handler writes nothing, stops nothing and
\* spawns nothing.
C16_UpdateReportsChangeAndRestarts ==
    /\ [](upd.pc = "return" /\ upd.raisedAt # "sync" =>
            /\ (upd.report = "changed") <=> (upd.before # upd.after)
            /\ upd.before # upd.after =>
                 db[upd.b].last_commit = upd.after)
    /\ [][/\ (upd.pc = "spawn" /\ upd'.pc = "commit") =>
               ~is_process_running(upd.loaded.process_pid)
          /\ (upd.pc = "commit" /\ upd.cur.enabled) =>
               db'[upd.b].process_pid = upd.cur.process_pid
          /\ (upd.pc = "sync" /\ upd'.report = "unchanged") =>
               /\ upd'.pc = "return"
               /\ db' = db /\ procs' = procs /\ nextPid' = nextPid
          /\ (upd.pc = "return" /\ upd.report = "unchanged") =>
               (db' = db /\ procs' = procs /\ nextPid' = nextPid)]_vars

\* C17: from the moment the sync of update_repo raises until the handler
\* returns, the handler changes no row and no process, and it reports the
\* error.
C17_SyncErrorLeavesBotUntouched ==
    [][(upd' # upd /\ (upd.raisedAt = "sync" \/ upd'.raisedAt = "sync")) =>
          /\ db' = db
          /\ procs' = procs
          /\ nextPid' = nextPid
          /\ upd'.pc \in {"return", "idle"}
          /\ upd.pc = "sync" => upd'.report = "error"]_vars

\* A sync error has been reported for an enabled bot whose recorded process
\* is still running and whose last_commit is behind the upstream.
C17_Witness ==
    /\ upd.pc = "return"
    /\ upd.raisedAt = "sync"
    /\ upd.report = "error"
    /\ db[upd.b].enabled
    /\ is_process_running(db[upd.b].process_pid)
    /\ db[upd.b].last_commit < remote

\* C18: a failing iteration of daily_update_job or log_scan_job leaves the
\* committed rows as they are and the loop goes on to the next bot; when
\* the job ends it has reached every bot of its list, and every bot whose
\* own iteration did not fail is at the revision its sync returned, counts
\* as updated exactly when that revision is new, and then has the new
\* revision as last_commit and, if enabled, a new process of its own
\* recorded.
C18_FailureIsIsolated ==
    /\ [](job.pc = "done" =>
            \A k \in 1..Len(job.bots) :
               LET b == job.bots[k]
                   r == job.res[b]
               IN /\ r.outcome # "pending"
                  /\ (job.kind = "daily" /\ r.outcome # "failed") =>
                       /\ (r.outcome = "updated") <=> (r.before # r.after)
                       /\ wd[b].head = r.after
                       /\ (r.outcome = "updated") =>
                            /\ db[b].last_commit = r.after
                            /\ db[b].enabled =>
                                 /\ r.pid # NoPid
                                 /\ db[b].process_pid = r.pid
                                 /\ procs[r.pid].owner = b)
    /\ [][(\E b \in Fleet : /\ job.res[b].outcome # "failed"
                            /\ job'.res[b].outcome = "failed") =>
             (db' = db /\ job'.pc = "next")]_vars

\* A daily job has ended whose first bot failed and whose second bot,
\* enabled, was updated and runs its new process.
C18_Witness ==
    /\ job.pc = "done"
    /\ job.kind = "daily"
    /\ Len(job.bots) = 2
    /\ job.res[job.bots[1]].outcome = "failed"
    /\ job.res[job.bots[2]].outcome = "updated"
    /\ db[job.bots[2]].enabled
    /\ is_process_running(db[job.bots[2]].process_pid)
    /\ db[job.bots[2]].process_pid = job.res[job.bots[2]].pid

-----------------------------------------------------------------------------
(* Properties of the .env file, checked under SpecEnv *)

\* C21: in the written .env file the declared lines come first and
\* unchanged, every injected key is defined exactly once (DATABASE_URL:
\* at most once, and once when the bot has a database URL): it is added
\* if and only if no declared line has exactly that name.
C21_InjectedIffNotDeclared ==
    env.stage = "written" =>
       /\ SubSeq(env.written, 1, Len(env.declared)) = env.declared
       /\ \A key \in InjectedKeys :
            LET n == Cardinality({i \in 1..Len(env.written) :
                                     env.written[i].name = <<key>>})
            IN /\ n <= 1
               /\ (key # "DATABASE_URL" \/ env.db_url) => n = 1

-----------------------------------------------------------------------------
(* Properties of the interpreter resolution, checked under SpecPy *)

\* C22: when an environment was requested, the path
\* resolve_python_executable returned lies in that environment.
C22_ResolvedInsideRequestedEnv ==
    (py.stage = "resolved" /\ py.venv_path) => InVenv(py.result)

-----------------------------------------------------------------------------
(* Properties of step 5, checked under SpecDep *)

\* C25: the wait of step 5 sleeps at most WaitAttempts times and step 5
\* always ends; leaving the test after the wait with the manifest absent,
\* nothing is installed and the run is at step 6, not failed; with the
\* manifest there, pip install has run (the run is at step 6 with the
\* dependencies installed, or pip raised); and a manifest that appeared
\* during the wait is not left uninstalled at step 6.
C25_ManifestWaitIsBounded ==
    /\ [](\A b \in Fleet :
            /\ dep[b].attempts <= WaitAttempts
            /\ (dep[b].stage = "step6" /\ dep[b].appeared)
                 => dep[b].installed)
    /\ [][\A b \in Fleet :
            (dep[b].stage = "test" /\ dep'[b].stage # "test") =>
               IF dep[b].manifest
               THEN \/ dep'[b].stage = "step6" /\ dep'[b].installed
                    \/ dep'[b].stage = "failed" /\ ~dep'[b].installed
               ELSE dep'[b].stage = "step6" /\ ~dep'[b].installed]_vars
    /\ \A b \in Fleet :
         (dep[b].stage = "wait") ~> (dep[b].stage \in {"step6", "failed"})

\* One bot went through the whole wait without a manifest and is at step 6
\* with nothing installed; for another the manifest appeared after some
\* sleeps and was installed.
C25_Witness ==
    \E b, c \in Fleet :
       /\ dep[b].stage = "step6"
       /\ dep[b].attempts = WaitAttempts
       /\ ~dep[b].manifest
       /\ ~dep[b].installed
       /\ dep[c].stage = "step6"
       /\ dep[c].appeared
       /\ dep[c].attempts > 0
       /\ dep[c].installed

-----------------------------------------------------------------------------
(* Properties of the scanner on a removed or unreadable log, checked under *)
(* SpecRotate                                                               *)

\* C26: a scan of a missing log, or one whose read raises, returns the
\* offset stored before the call and zero matches, and leaves the stored
\* offsets and the number of notifications sent as they were.
C26_FailedScanChangesNothing ==
    [][(lastScan' # lastScan /\ (~logFile.exists \/ lastScan'.raised)) =>
          /\ lastScan'.done
          /\ lastScan'.offset = (IF LogPath \in DOMAIN logOffsets
                                 THEN logOffsets[LogPath] ELSE 0)
          /\ lastScan'.matches = 0
          /\ logOffsets' = logOffsets
          /\ alerts' = alerts]_vars

\* A scan of a missing log has returned the offset a scan before the
\* removal had stored.
C26_Witness ==
    /\ lastScan.done
    /\ ~logFile.exists
    /\ lastScan.offset > 0
    /\ lastScan.matches = 0
    /\ LogPath \in DOMAIN logOffsets
    /\ logOffsets[LogPath] = lastScan.offset

-----------------------------------------------------------------------------
(* Properties of the provisioning steps, checked under Spec *)

\* C23: whoever sees an effect of step k in the work directory sees
\* setup_step >= k in the row, and the action of step k begins with
\* (k, message of step k, "running") committed.
C23_ProgressCommittedBeforeAction ==
    /\ [](\A b \in Bots :
            /\ fs[b].checkout => db[b].setup_step >= 1
            /\ fs[b].envfile => db[b].setup_step >= 2
            /\ fs[b].venv => db[b].setup_step >= 3
            /\ fs[b].pip => db[b].setup_step >= 4
            /\ fs[b].deps => db[b].setup_step >= 5)
    /\ [][\A b \in Bots :
            (run[b].pc = "action" /\ run'[b] # run[b]) =>
               /\ db[b].setup_step = run[b].k
               /\ db[b].setup_status = "running"
               /\ fs'[b] # fs[b] =>
                    (run'[b].pc = "progress" /\ run'[b].k = run[b].k + 1)
         ]_vars

\* The dependencies of step 5 are installed and the row still shows step 5.
C23_Witness ==
    \E b \in Bots :
       /\ fs[b].deps
       /\ db[b].setup_step = 5
       /\ db[b].setup_status = "running"
       /\ run[b].pc = "progress"
       /\ run[b].k = 6

\* C24: once step 1 has left a checkout, the row's last_commit is the head
\* revision of that checkout, up to the end of the run and after it.
C24_LastCommitIsCheckoutHead ==
    \A b \in Bots :
       fs[b].checkout =>
          /\ wd[b].head # NoRev
          /\ db[b].last_commit = wd[b].head

-----------------------------------------------------------------------------
(* Properties of the work directories, checked under SpecShare *)

\* C27: no two registered bots have the same work directory, and the .env
\* and the checkout in a bot's work directory are never another bot's.
C27_BotsShareNothing ==
    /\ \A b, c \in Fleet :
         (b # c /\ reg[b] # NoName /\ reg[c] # NoName) =>
            WorkdirOf(reg[b]) # WorkdirOf(reg[c])
    /\ \A b \in Fleet :
         reg[b] # NoName =>
            /\ dirs[WorkdirOf(reg[b])].envOf \in {0, b}
            /\ dirs[WorkdirOf(reg[b])].repoOf \in {0, b}

-----------------------------------------------------------------------------
(* Properties of the spawns and of what they record *)

\* C28: every process spawned for a bot was started with the venv_path the
\* bot's row holds.  Checked under SpecJobs.
C28_SpawnUsesStoredVenv ==
    \A p \in Pids :
       procs[p].owner # 0 =>
          procs[p].venv_path = db[procs[p].owner].venv_path

\* C29: when the provisioning worker of a bot has ended and no request is
\* being served, the row's status is "running" exactly if its process_pid
\* is set.  Checked under Spec.
C29_RunningIffPidSet ==
    \A b \in Bots :
       ( /\ db[b].exists
         /\ run[b].pc \in {"ended", "crashed"}
         /\ \A t \in WebThreads : web[t].pc = "idle" )
       => ((db[b].status = "running") <=> (db[b].process_pid # NoPid))

\* C30: when update_repo returns, the row's process_pid is not the pid of
\* the process this request terminated.  Checked under SpecUpdate.
C30_TerminatedPidNotKept ==
    (upd.pc = "return" /\ upd.stopped # NoPid) =>
       db[upd.b].process_pid # upd.stopped

-----------------------------------------------------------------------------
(* Properties of the two status columns and of the indirect spawns *)

\* C31: in every state a poller can read, a row with setup_status "failed"
\* has status "errored", and a row with setup_status "done" has status
\* "stopped" or "running".  Checked under Spec.
C31_SetupStatusAgreesWithStatus ==
    \A b \in Bots :
       db[b].exists =>
          /\ db[b].setup_status = "failed" => db[b].status = "errored"
          /\ db[b].setup_status = "done" =>
               db[b].status \in {"stopped", "running"}

\* C32: update_repo spawns a process only for a bot whose setup_status is
\* "done".  Checked under SpecUpdate.
C32_UpdateSpawnsOnlyProvisioned ==
    [][(upd.pc = "spawn" /\ upd'.pc = "commit") =>
          db[upd.b].setup_status = "done"]_vars

=============================================================================
